---- MODULE Spec2Model ----
(***************************************************************************)
(* Model of scripts/render_display.py: DisplayRenderer.render and the      *)
(* three region renderers _draw_zone_box, _draw_pump_box, _draw_status_bar.*)
(* The drawing surface is modelled by the draw commands issued to it.      *)
(* Temperatures, setpoints and the hysteresis are fixed-point numbers in   *)
(* tenths of a degree (20.0 C is 200); pixel coordinates are integers.     *)
(***************************************************************************)
EXTENDS Integers, Sequences, FiniteSets, TLC

VARIABLES zones, hysteresis, pump_on, pump_demand, pump_history,
          wifi_connected, pc, zoneCmds, pumpCmds, statusCmds

vars == <<zones, hysteresis, pump_on, pump_demand, pump_history,
          wifi_connected, pc, zoneCmds, pumpCmds, statusCmds>>

(* ---------------- bounds of the explored inputs ---------------- *)
MaxLead == 40
MaxTail == 2
MaxRun == 2
MaxHyst == 80
MaxErrorScore == 100

(* ---------------- program constants ---------------- *)
BOX_WIDTH == 40
BOX_HEIGHT == 78
GRAPH_HEIGHT == 84
GRAPH_Y == BOX_HEIGHT
GRAPH_RANGE == 60
NumZones == 7
WindowLen == 40
SampleDivisor == 39
SensorErrorLow == 845
SensorErrorHigh == 855
SafetyThreshold == 50
SampleMin == 0
SampleMax == 1000

(* Optional[float]: None or a number *)
None == [some |-> FALSE, v |-> 0]
Some(n) == [some |-> TRUE, v |-> n]

Max(a, b) == IF a >= b THEN a ELSE b
Min(a, b) == IF a <= b THEN a ELSE b

(* Python int(n / d) for d > 0: truncation toward zero *)
Trunc(n, d) == IF n >= 0 THEN n \div d ELSE -((-n) \div d)

(* f"{t:.0f}" of a value given in tenths: round to nearest, ties to even *)
Format0(t) ==
    LET q == t \div 10
        r == t % 10
        n == IF r < 5 THEN q
             ELSE IF r > 5 THEN q + 1
             ELSE IF q % 2 = 0 THEN q ELSE q + 1
    IN ToString(n)

(* seq[-n:] *)
LastN(seq, n) ==
    IF Len(seq) <= n THEN seq ELSE SubSeq(seq, Len(seq) - n + 1, Len(seq))

(* ---------------- _draw_zone_box: status and colours ---------------- *)
SensorMissing(zone) == ~zone.temp.some

(* variant: the band excludes its end points *)
SensorErrorOpenBand(zone) ==
    /\ ~SensorMissing(zone)
    /\ SensorErrorLow < zone.temp.v
    /\ zone.temp.v < SensorErrorHigh

SensorError(zone) ==
    /\ ~SensorMissing(zone)
    /\ SensorErrorLow <= zone.temp.v
    /\ zone.temp.v <= SensorErrorHigh

SafetyError(zone) == zone.error_score >= SafetyThreshold

(* variant: the safety-error rule is tried before the disabled rule *)
ZoneColorsSafetyFirst(zone) ==
    IF SafetyError(zone) /\ ~SensorMissing(zone) /\ ~SensorError(zone) THEN
        [outline |-> "WHITE", text |-> "WHITE", bg |-> "RED"]
    ELSE IF zone.is_disabled THEN
        [outline |-> "RED", text |-> "WHITE", bg |-> "DARK_RED"]
    ELSE IF SensorMissing(zone) THEN
        [outline |-> "GRAY", text |-> "GRAY", bg |-> "DARK_GRAY"]
    ELSE IF SensorError(zone) THEN
        [outline |-> "RED", text |-> "WHITE", bg |-> "DARK_GRAY"]
    ELSE IF zone.is_heating THEN
        [outline |-> "WHITE", text |-> "WHITE", bg |-> "ORANGE"]
    ELSE
        [outline |-> "WHITE", text |-> "WHITE", bg |-> "DARK_GRAY"]

ZoneColors(zone) ==
    IF zone.is_disabled THEN
        [outline |-> "RED", text |-> "WHITE", bg |-> "DARK_RED"]
    ELSE IF SensorMissing(zone) THEN
        [outline |-> "GRAY", text |-> "GRAY", bg |-> "DARK_GRAY"]
    ELSE IF SensorError(zone) THEN
        [outline |-> "RED", text |-> "WHITE", bg |-> "DARK_GRAY"]
    ELSE IF SafetyError(zone) THEN
        [outline |-> "WHITE", text |-> "WHITE", bg |-> "RED"]
    ELSE IF zone.is_heating THEN
        [outline |-> "WHITE", text |-> "WHITE", bg |-> "ORANGE"]
    ELSE
        [outline |-> "WHITE", text |-> "WHITE", bg |-> "DARK_GRAY"]

(* variant: a missing sensor is printed as a reading of zero *)
TempTextZero(zone, text_color) ==
    [text |-> Format0(zone.temp.v), fill |-> text_color, font |-> "xlarge"]

TempText(zone, text_color) ==
    IF ~SensorMissing(zone) THEN
        [text |-> Format0(zone.temp.v), fill |-> text_color, font |-> "xlarge"]
    ELSE
        [text |-> "--", fill |-> "GRAY", font |-> "large"]

Indicator(on, lit) ==
    [filled |-> on, color |-> IF on THEN lit ELSE "GRAY"]

(* ---------------- _draw_zone_box: graph ---------------- *)

(* variant: the overlays are drawn whenever there is a history *)
GraphDrawnAnySensor(zone) == zone.history # <<>>

GraphDrawn(zone) == ~SensorMissing(zone) /\ zone.history # <<>>

CenterLine(gx, gy, gw, gh) ==
    [x0 |-> gx + 1, x1 |-> gx + gw - 2, y |-> gy + gh \div 2, fill |-> "GRAY"]

(* row of the value val (tenths) before clamping *)
RowOf(val, setpoint, gy, gh) ==
    gy + Trunc(((setpoint + GRAPH_RANGE) - val) * gh, GRAPH_RANGE * 2)

HystUpperY(setpoint, hyst, gy, gh) == RowOf(setpoint + hyst, setpoint, gy, gh)
HystLowerY(setpoint, hyst, gy, gh) == RowOf(setpoint - hyst, setpoint, gy, gh)

(* range(gx + 2, gx + gw - 2, 3) *)
DotColumns(gx, gw) ==
    {px \in (gx + 2)..(gx + gw - 3) : (px - (gx + 2)) % 3 = 0}

GuidePoints(y, gx, gy, gw, gh) ==
    IF gy <= y /\ y < gy + gh
    THEN {<<px, y>> : px \in DotColumns(gx, gw)}
    ELSE {}

(* variant: a missing sample counts as the value zero *)
ValidSampleNoneAsZero(val) == ~(val.v < SampleMin) /\ ~(val.v > SampleMax)

ValidSample(val) == val.some /\ ~(val.v < SampleMin) /\ ~(val.v > SampleMax)

(* variant: the row is not clamped to the panel *)
ClampYNone(py, gy, gh) == py

ClampY(py, gy, gh) == Max(gy + 1, Min(gy + gh - 2, py))

(* variant: the mapping uses the full box width of 40 *)
SampleXBoxWidth(s, gx, gw) == gx + 1 + (s * (gw - 2)) \div SampleDivisor

SampleX(s, gx, gw) == gx + 1 + (s * (gw - 3)) \div SampleDivisor

Enumerate(seq) == [j \in 1..Len(seq) |-> [s |-> j - 1, val |-> seq[j]]]

TracePoints(history, setpoint, gx, gy, gw, gh) ==
    LET kept == SelectSeq(Enumerate(LastN(history, WindowLen)),
                          LAMBDA e : ValidSample(e.val))
    IN [j \in 1..Len(kept) |->
          <<SampleX(kept[j].s, gx, gw),
            ClampY(RowOf(kept[j].val.v, setpoint, gy, gh), gy, gh)>>]

ZoneBox(index, zone, hyst) ==
    LET x == index * BOX_WIDTH
        c == ZoneColors(zone)
        gx == x
        gy == GRAPH_Y
        gw == BOX_WIDTH - 1
        gh == GRAPH_HEIGHT
        points == TracePoints(zone.history, zone.setpoint, gx, gy, gw, gh)
    IN [x |-> x,
        bg |-> c.bg,
        outline |-> c.outline,
        label |-> [text |-> index + 1, fill |-> c.text],
        dis |-> zone.is_disabled,
        temp_text |-> TempText(zone, c.text),
        set_text |-> [text |-> Format0(zone.setpoint), fill |-> c.text],
        heat |-> Indicator(zone.is_heating, "RED"),
        valv |-> Indicator(zone.valve_open, "BLUE"),
        graph_outline |-> IF SensorMissing(zone) THEN "DARK_GRAY" ELSE "LIGHT_GRAY",
        center |-> IF GraphDrawn(zone) THEN <<CenterLine(gx, gy, gw, gh)>> ELSE <<>>,
        hyst_upper |-> IF GraphDrawn(zone)
                       THEN GuidePoints(HystUpperY(zone.setpoint, hyst, gy, gh), gx, gy, gw, gh)
                       ELSE {},
        hyst_lower |-> IF GraphDrawn(zone)
                       THEN GuidePoints(HystLowerY(zone.setpoint, hyst, gy, gh), gx, gy, gw, gh)
                       ELSE {},
        trace |-> IF GraphDrawn(zone) /\ Len(points) > 1 THEN points ELSE <<>>]

(* ---------------- _draw_pump_box ---------------- *)

(* variant: a bar is issued for every sample of the window *)
PumpBarsEverySample(history, pgx, pgy, pgw, pgh) ==
    LET on == Enumerate(LastN(history, WindowLen))
    IN [j \in 1..Len(on) |->
          [x |-> SampleX(on[j].s, pgx, pgw), y0 |-> pgy + 2, y1 |-> pgy + pgh - 3]]

PumpBars(history, pgx, pgy, pgw, pgh) ==
    LET on == SelectSeq(Enumerate(LastN(history, WindowLen)), LAMBDA e : e.val)
    IN [j \in 1..Len(on) |->
          [x |-> SampleX(on[j].s, pgx, pgw), y0 |-> pgy + 2, y1 |-> pgy + pgh - 3]]

PumpBox(on, demand, history) ==
    LET pump_x == NumZones * BOX_WIDTH
    IN [x |-> pump_x,
        bg |-> IF on THEN "BLUE" ELSE "DARK_GRAY",
        status |-> [text |-> IF on THEN "ON" ELSE "OFF",
                    fill |-> IF on THEN "WHITE" ELSE "GRAY"],
        dmd |-> Indicator(demand, "ORANGE"),
        rly |-> Indicator(on, "GREEN"),
        bars |-> PumpBars(history, pump_x, GRAPH_Y, BOX_WIDTH - 1, GRAPH_HEIGHT)]

(* ---------------- _draw_status_bar ---------------- *)

(* variant: the valves of disabled zones are not counted *)
AnyValveEnabledOnly(zs) == \E j \in 1..Len(zs) : zs[j].valve_open /\ ~zs[j].is_disabled

AnyValve(zs) == \E j \in 1..Len(zs) : zs[j].valve_open

ActiveCount(zs) == Cardinality({j \in 1..Len(zs) : zs[j].is_heating})

StatusBar(zs, demand, wifi) ==
    [net |-> IF wifi THEN [text |-> "ip_address", fill |-> "GREEN"]
             ELSE [text |-> "DISCONNECTED", fill |-> "RED"],
     rssi |-> wifi,
     demand |-> [text |-> IF demand THEN "ACTIVE" ELSE "idle",
                 fill |-> IF demand THEN "ORANGE" ELSE "GRAY"],
     valve |-> [text |-> IF AnyValve(zs) THEN "OPEN" ELSE "closed",
                fill |-> IF AnyValve(zs) THEN "GREEN" ELSE "GRAY"],
     zones |-> [count |-> ActiveCount(zs),
                fill |-> IF ActiveCount(zs) > 0 THEN "ORANGE" ELSE "GRAY"]]

(* ---------------- inputs ---------------- *)
DefaultZone ==
    [temp |-> None, setpoint |-> 200, is_heating |-> FALSE, valve_open |-> FALSE,
     error_score |-> 0, is_disabled |-> FALSE, history |-> <<>>]

DefaultPumpHistory == [j \in 1..40 |-> FALSE]

Repeat(v, n) == [j \in 1..n |-> v]

OneZone(k, z) == [j \in 1..NumZones |-> IF j = k + 1 THEN z ELSE DefaultZone]

TempValues == {None, Some(200), Some(844), Some(845), Some(850), Some(855), Some(856)}
ScoreValues == {0, 49, 50, MaxErrorScore}
Setpoints == {0, 200}

HistValues(sp) ==
    {None, Some(sp), Some(sp + 2), Some(sp + 70), Some(sp - 70),
     Some(sp + 1000), Some(-1)}

Tails(sp) == UNION {[1..n -> HistValues(sp)] : n \in 0..MaxTail}

Defaults ==
    /\ hysteresis = 5
    /\ pump_on = FALSE
    /\ pump_demand = FALSE
    /\ pump_history = DefaultPumpHistory
    /\ wifi_connected = TRUE

Blank ==
    /\ pc = "zones"
    /\ zoneCmds = <<>>
    /\ pumpCmds = <<>>
    /\ statusCmds = <<>>

(* one zone with every combination of status flags *)
InitBox ==
    /\ \E k \in 0..(NumZones - 1), t \in TempValues, e \in ScoreValues,
          d \in BOOLEAN, h \in BOOLEAN, v \in BOOLEAN,
          hist \in {<<>>, <<Some(200), Some(202)>>} :
          zones = OneZone(k, [temp |-> t, setpoint |-> 200, is_heating |-> h,
                              valve_open |-> v, error_score |-> e,
                              is_disabled |-> d, history |-> hist])
    /\ Defaults

(* one zone with a sensor and a history of up to MaxLead + MaxTail samples *)
InitTrace ==
    /\ \E sp \in Setpoints, a \in 0..MaxLead :
         \E tail \in Tails(sp) :
          zones = OneZone(0, [DefaultZone EXCEPT !.temp = Some(200), !.setpoint = sp,
                                !.history = Repeat(Some(sp), a) \o tail])
    /\ Defaults

(* one zone with a sensor, over the hysteresis values *)
InitGuide ==
    /\ \E sp \in Setpoints, hy \in 0..MaxHyst, hist \in {<<>>, <<Some(200), Some(202)>>} :
          /\ zones = OneZone(0, [DefaultZone EXCEPT !.temp = Some(200), !.setpoint = sp,
                                   !.history = hist])
          /\ hysteresis = hy
    /\ pump_on = FALSE
    /\ pump_demand = FALSE
    /\ pump_history = DefaultPumpHistory
    /\ wifi_connected = TRUE

(* pump histories made of runs: off, on, off, on *)
InitPump ==
    /\ zones = [j \in 1..NumZones |-> DefaultZone]
    /\ hysteresis = 5
    /\ \E a \in 0..MaxLead, b \in 0..MaxRun, c \in 0..MaxRun, d \in 0..MaxRun :
          pump_history = Repeat(FALSE, a) \o Repeat(TRUE, b)
                           \o Repeat(FALSE, c) \o Repeat(TRUE, d)
    /\ pump_on \in BOOLEAN
    /\ pump_demand = FALSE
    /\ wifi_connected = TRUE

ZoneKinds ==
    { DefaultZone,
      [DefaultZone EXCEPT !.temp = Some(200)],
      [DefaultZone EXCEPT !.temp = Some(200), !.is_disabled = TRUE, !.error_score = 100],
      [DefaultZone EXCEPT !.temp = Some(850)],
      [DefaultZone EXCEPT !.temp = Some(200), !.is_heating = TRUE, !.error_score = 65] }

(* seven zones of one kind, with every combination of valve flags *)
InitStatus ==
    /\ \E z \in ZoneKinds, vo \in [1..NumZones -> BOOLEAN] :
          zones = [j \in 1..NumZones |-> [z EXCEPT !.valve_open = vo[j]]]
    /\ hysteresis = 5
    /\ pump_on = FALSE
    /\ pump_demand \in BOOLEAN
    /\ pump_history = DefaultPumpHistory
    /\ wifi_connected \in BOOLEAN

Init ==
    /\ Blank
    /\ (InitBox \/ InitTrace \/ InitGuide \/ InitPump \/ InitStatus)

(* ---------------- render ---------------- *)
DrawZoneBox ==
    /\ pc = "zones"
    /\ Len(zoneCmds) < Len(zones)
    /\ zoneCmds' = Append(zoneCmds,
                          ZoneBox(Len(zoneCmds), zones[Len(zoneCmds) + 1], hysteresis))
    /\ UNCHANGED <<zones, hysteresis, pump_on, pump_demand, pump_history,
                   wifi_connected, pc, pumpCmds, statusCmds>>

DrawPumpBox ==
    /\ pc = "zones"
    /\ Len(zoneCmds) = Len(zones)
    /\ pumpCmds' = <<PumpBox(pump_on, pump_demand, pump_history)>>
    /\ pc' = "status"
    /\ UNCHANGED <<zones, hysteresis, pump_on, pump_demand, pump_history,
                   wifi_connected, zoneCmds, statusCmds>>

DrawStatusBar ==
    /\ pc = "status"
    /\ statusCmds' = <<StatusBar(zones, pump_demand, wifi_connected)>>
    /\ pc' = "done"
    /\ UNCHANGED <<zones, hysteresis, pump_on, pump_demand, pump_history,
                   wifi_connected, zoneCmds, pumpCmds>>

(* render() called again on the same state: a fresh image *)
Render ==
    /\ pc = "done"
    /\ pc' = "zones"
    /\ zoneCmds' = <<>>
    /\ pumpCmds' = <<>>
    /\ statusCmds' = <<>>
    /\ UNCHANGED <<zones, hysteresis, pump_on, pump_demand, pump_history, wifi_connected>>

Next == DrawZoneBox \/ DrawPumpBox \/ DrawStatusBar \/ Render

Spec == Init /\ [][Next]_vars

(* ====================== properties ====================== *)
Drawn(i) == Len(zoneCmds) > i
Box(i) == zoneCmds[i + 1]
Zone(i) == zones[i + 1]
ZoneIdx == 0..(NumZones - 1)
Window(i) == LastN(Zone(i).history, 40)
InBand(t) == t.some /\ 845 <= t.v /\ t.v <= 855
Usable(val) == val.some /\ val.v >= 0 /\ val.v <= 1000
UsableIdx(w) == {s \in 1..Len(w) : Usable(w[s])}
Nth(S, j) == CHOOSE s \in S : Cardinality({t \in S : t < s}) = j - 1
Column(gx, s) == gx + 1 + (s * 36) \div 39
TopRow == GRAPH_Y + 1
BottomRow == GRAPH_Y + GRAPH_HEIGHT - 2
Vertices(tr) == {tr[j] : j \in 1..Len(tr)}

(* the ordered rule list of the zone box: <<background, outline>> of the first match *)
FirstMatch(z) ==
    LET rules == << <<z.is_disabled, "DARK_RED", "RED">>,
                    <<~z.temp.some, "DARK_GRAY", "GRAY">>,
                    <<InBand(z.temp), "DARK_GRAY", "RED">>,
                    <<z.error_score >= 50, "RED", "WHITE">>,
                    <<z.is_heating, "ORANGE", "WHITE">>,
                    <<TRUE, "DARK_GRAY", "WHITE">> >>
        first == CHOOSE r \in 1..6 : rules[r][1] /\ \A q \in 1..(r - 1) : ~rules[q][1]
    IN <<rules[first][2], rules[first][3]>>

(* C1: the (background, outline) pair of every drawn zone box is the pair of
   the first matching rule of disabled > sensor-missing > sensor-fault band >
   errorScore >= 50 > isHeating > neutral; a disabled zone with errorScore
   100 has the disabled background, never the safety-error background. *)
C1_Precedence ==
    \A i \in ZoneIdx : Drawn(i) =>
        /\ <<Box(i).bg, Box(i).outline>> = FirstMatch(Zone(i))
        /\ (Zone(i).is_disabled /\ Zone(i).error_score = 100
              => Box(i).bg = "DARK_RED" /\ Box(i).bg # "RED")

C1_Witness ==
    \E i \in ZoneIdx :
        /\ Drawn(i)
        /\ Zone(i).is_disabled /\ Zone(i).error_score = 100 /\ Zone(i).temp.some
        /\ Box(i).bg = "DARK_RED"

(* C2 as stated: every zone with an absent temperature shows "--" and has a
   gray outline, a gray zone label and a gray setpoint label, whatever its
   other flags. *)
C2_Original ==
    \A i \in ZoneIdx : Drawn(i) /\ ~Zone(i).temp.some =>
        /\ Box(i).temp_text.text = "--"
        /\ Box(i).outline = "GRAY"
        /\ Box(i).label.fill = "GRAY"
        /\ Box(i).set_text.fill = "GRAY"

(* C2 amended: every zone with an absent temperature shows the gray "--"
   placeholder whatever its flags; its outline, zone label and setpoint label
   are gray when the zone is not disabled, and when it is disabled the outline
   is the error colour and the labels are white. *)
C2_Amended ==
    \A i \in ZoneIdx : Drawn(i) /\ ~Zone(i).temp.some =>
        /\ Box(i).temp_text.text = "--"
        /\ Box(i).temp_text.fill = "GRAY"
        /\ (~Zone(i).is_disabled =>
              /\ Box(i).outline = "GRAY"
              /\ Box(i).label.fill = "GRAY"
              /\ Box(i).set_text.fill = "GRAY")
        /\ (Zone(i).is_disabled =>
              /\ Box(i).outline = "RED"
              /\ Box(i).label.fill = "WHITE"
              /\ Box(i).set_text.fill = "WHITE")

C2_Witness ==
    \E i \in ZoneIdx :
        /\ Drawn(i)
        /\ ~Zone(i).temp.some /\ ~Zone(i).is_disabled
        /\ Zone(i).error_score >= 50 /\ Zone(i).is_heating /\ Zone(i).valve_open
        /\ Box(i).temp_text.text = "--"
        /\ Box(i).outline = "GRAY"

(* C3 as stated: for a present temperature the outline has the error colour
   when the temperature is in [84.5, 85.5] and does not have it when the
   temperature is outside, for every setting of the other flags. *)
C3_Original ==
    \A i \in ZoneIdx : Drawn(i) /\ Zone(i).temp.some =>
        (Box(i).outline = "RED" <=> InBand(Zone(i).temp))

(* C3 amended: for a present temperature in [84.5, 85.5] the outline has the
   error colour for every setting of the other flags; for a present temperature
   outside the band the outline has the error colour exactly when the zone is
   disabled. *)
C3_Amended ==
    \A i \in ZoneIdx : Drawn(i) /\ Zone(i).temp.some =>
        /\ (InBand(Zone(i).temp) => Box(i).outline = "RED")
        /\ (~InBand(Zone(i).temp) =>
              (Box(i).outline = "RED" <=> Zone(i).is_disabled))

C3_Witness ==
    \E i \in ZoneIdx :
        /\ Drawn(i)
        /\ Zone(i).temp = Some(855) /\ ~Zone(i).is_disabled
        /\ Zone(i).error_score >= 50 /\ Zone(i).is_heating
        /\ Box(i).outline = "RED"

(* the zone graph overlays are on the surface: sensor present, the zone drawn *)
Present(i) == Drawn(i) /\ Zone(i).temp.some
PresentSamples(w) == {s \in 1..Len(w) : w[s].some}

(* C4 as stated: with the sensor present, every history sample outside
   [setpoint - 6, setpoint + 6] is a point of the trace on the nearest edge
   row, never skipped; a sample of setpoint + 100 gives a point on the top
   edge row for every setpoint.  (Stated for the samples above the band, in
   windows holding at least two samples inside [0, 100], so that a trace is
   drawn.) *)
C4_Original ==
    \A i \in ZoneIdx : Present(i) /\ Cardinality(UsableIdx(Window(i))) >= 2 =>
        \A s \in PresentSamples(Window(i)) :
            LET v == Window(i)[s].v
                sp == Zone(i).setpoint
                px == Column(i * 40, s - 1)
            IN /\ (v > sp + 60 => <<px, TopRow>> \in Vertices(Box(i).trace))
               /\ (v = sp + 1000 => <<px, TopRow>> \in Vertices(Box(i).trace))

(* C4 amended: with the sensor present and at least two samples of the window
   inside the sanity bound [0, 100], every sample inside [0, 100] whose value
   lies outside [setpoint - 6, setpoint + 6] is a point of the trace on the
   nearest interior edge row (top for values above, bottom for values below),
   and no point of the trace is off the panel interior; a sample of
   setpoint + 100 gives a point on the top edge row only when
   setpoint + 100 <= 100, otherwise it is skipped like every sample outside
   [0, 100]. *)
C4_Amended ==
    \A i \in ZoneIdx : Present(i) /\ Cardinality(UsableIdx(Window(i))) >= 2 =>
        /\ \A s \in UsableIdx(Window(i)) :
              LET v == Window(i)[s].v
                  sp == Zone(i).setpoint
                  px == Column(i * 40, s - 1)
              IN /\ (v > sp + 60 => <<px, TopRow>> \in Vertices(Box(i).trace))
                 /\ (v < sp - 60 => <<px, BottomRow>> \in Vertices(Box(i).trace))
        /\ \A pt \in Vertices(Box(i).trace) : TopRow <= pt[2] /\ pt[2] <= BottomRow
        /\ \A s \in PresentSamples(Window(i)) :
              Window(i)[s].v = Zone(i).setpoint + 1000 /\ Zone(i).setpoint > 0
                  => Len(Box(i).trace) < Len(Window(i))

C4_Witness ==
    \E i \in ZoneIdx :
        /\ Present(i)
        /\ Zone(i).setpoint = 0
        /\ Zone(i).history = <<Some(0), Some(1000)>>
        /\ Box(i).trace = << <<i * 40 + 1, 120>>, <<i * 40 + 1, TopRow>> >>

(* C5: history gap rule, sensor present.  Samples of the last-40 window that
   are None or outside [0, 100] give no point; with fewer than two valid
   samples there is no trace; otherwise the trace has one vertex per valid
   sample, in order, at the pixel column of the sample's own window index and
   at the row of its own value, hence (valid samples - 1) segments.  The
   history [20.0, None, 20.2] gives one segment from the column of index 0 to
   the column of index 2. *)
C5_GapRule ==
    \A i \in ZoneIdx : Present(i) =>
        LET w == Window(i)
            V == UsableIdx(w)
            tr == Box(i).trace
            sp == Zone(i).setpoint
        IN /\ (Cardinality(V) < 2 => tr = <<>>)
           /\ (Cardinality(V) >= 2 =>
                 /\ Len(tr) - 1 = Cardinality(V) - 1
                 /\ \A j \in 1..Len(tr) :
                       LET s == Nth(V, j)
                           row == GRAPH_Y + Trunc((sp + 60 - w[s].v) * 7, 10)
                       IN /\ tr[j][1] = Column(i * 40, s - 1)
                          /\ tr[j][2] = Max(TopRow, Min(BottomRow, row)))
           /\ (Zone(i).history = <<Some(200), None, Some(202)>> =>
                 /\ Len(tr) = 2
                 /\ tr[1][1] = Column(i * 40, 0)
                 /\ tr[2][1] = Column(i * 40, 2))

C5_Witness ==
    \E i \in ZoneIdx :
        /\ Present(i)
        /\ Zone(i).setpoint = 200
        /\ Zone(i).history = <<Some(200), None, Some(202)>>
        /\ Box(i).trace = << <<i * 40 + 1, 120>>, <<i * 40 + 2, 118>> >>

(* C6: the pump graph has one vertical bar per true sample of the last-40
   window of pumpHistory, in order, at the pixel column of the sample's window
   index, and nothing for a false sample; [False]*39 + [True] gives exactly
   one bar, at the column of window index 39. *)
C6_PumpBars ==
    pumpCmds # <<>> =>
        LET w == LastN(pump_history, 40)
            T == {s \in 1..Len(w) : w[s]}
            bars == pumpCmds[1].bars
        IN /\ Len(bars) = Cardinality(T)
           /\ \A j \in 1..Len(bars) :
                 /\ bars[j].x = Column(7 * 40, Nth(T, j) - 1)
                 /\ bars[j].y0 = GRAPH_Y + 2
                 /\ bars[j].y1 = GRAPH_Y + GRAPH_HEIGHT - 3
           /\ (pump_history = Repeat(FALSE, 39) \o <<TRUE>> =>
                 Len(bars) = 1 /\ bars[1].x = 7 * 40 + 37)

C6_Witness ==
    /\ pumpCmds # <<>>
    /\ pump_history = Repeat(FALSE, 39) \o <<TRUE>>
    /\ Len(pumpCmds[1].bars) = 1
    /\ pumpCmds[1].bars[1].x = 317

(* C7: the valve word of the status bar is "OPEN" exactly when at least one
   of the 7 zones has valveOpen, "closed" when none has; its colour follows the
   same aggregate; nothing else of the zones (disabled, sensor missing, error)
   enters. *)
C7_AggregateValve ==
    statusCmds # <<>> =>
        LET any == \E j \in 1..7 : zones[j].valve_open
            word == statusCmds[1].valve
        IN /\ (word.text = "OPEN" <=> any)
           /\ (word.text = "closed" <=> ~any)
           /\ (word.fill = "GREEN" <=> any)
           /\ (word.fill = "GRAY" <=> ~any)

C7_Witness ==
    /\ statusCmds # <<>>
    /\ Cardinality({j \in 1..7 : zones[j].valve_open}) = 1
    /\ \A j \in 1..7 : zones[j].is_disabled
    /\ ~zones[1].valve_open
    /\ statusCmds[1].valve.text = "OPEN"

(* a drawn zone whose last-40 window holds n >= 2 samples, all of them valid *)
FullTrace(i) ==
    /\ Present(i)
    /\ Len(Window(i)) >= 2
    /\ UsableIdx(Window(i)) = 1..Len(Window(i))
AllOn(w) == Len(w) >= 1 /\ \A s \in 1..Len(w) : w[s]
LeftColumn(gx) == gx + 1
RightColumn(gx) == gx + (BOX_WIDTH - 1) - 2

(* C8 as stated: for every number n of samples in the window (1 <= n <= 40)
   the first sample is at the left interior column and the last sample
   (index n - 1) at the right interior column, for the trace and for the
   pump bars. *)
C8_Original ==
    /\ \A i \in ZoneIdx : FullTrace(i) =>
          /\ Box(i).trace[1][1] = LeftColumn(i * 40)
          /\ Box(i).trace[Len(Box(i).trace)][1] = RightColumn(i * 40)
    /\ (pumpCmds # <<>> /\ AllOn(LastN(pump_history, 40)) =>
          /\ pumpCmds[1].bars[1].x = LeftColumn(7 * 40)
          /\ pumpCmds[1].bars[Len(pumpCmds[1].bars)].x = RightColumn(7 * 40))

(* C8 amended: window index s is drawn at x = 1 + floor(s * 36 / 39) from the
   panel's left edge (36 = panel width 39 - 3), for the trace and for the pump
   bars; the first sample is at the left interior column for every n, and the
   last sample (index n - 1) is at the right interior column exactly when
   n = 40: fewer than 40 samples are not stretched and end left of it. *)
C8_Amended ==
    /\ \A i \in ZoneIdx : FullTrace(i) =>
          LET tr == Box(i).trace
              n == Len(Window(i))
          IN /\ Len(tr) = n
             /\ \A j \in 1..n : tr[j][1] = i * 40 + 1 + ((j - 1) * 36) \div 39
             /\ tr[1][1] = LeftColumn(i * 40)
             /\ tr[n][1] <= RightColumn(i * 40)
             /\ (tr[n][1] = RightColumn(i * 40) <=> n = 40)
    /\ (pumpCmds # <<>> /\ AllOn(LastN(pump_history, 40)) =>
          LET bars == pumpCmds[1].bars
              n == Len(LastN(pump_history, 40))
          IN /\ Len(bars) = n
             /\ \A j \in 1..n : bars[j].x = 7 * 40 + 1 + ((j - 1) * 36) \div 39
             /\ (bars[n].x = RightColumn(7 * 40) <=> n = 40))

C8_Witness ==
    \E i \in ZoneIdx :
        /\ FullTrace(i)
        /\ Len(Zone(i).history) = 20
        /\ Box(i).trace[1][1] = i * 40 + 1
        /\ Box(i).trace[20][1] = i * 40 + 18

(* C9: each dotted guide line (setpoint + hysteresis, setpoint - hysteresis)
   is drawn only if its value lies in [setpoint - 6, setpoint + 6]; a guide
   line with hysteresis > 6 gives no point at all. *)
C9_GuideOmitted ==
    \A i \in ZoneIdx : Drawn(i) =>
        /\ (Box(i).hyst_upper # {} => hysteresis <= 60)
        /\ (Box(i).hyst_lower # {} => hysteresis <= 60)
        /\ (hysteresis > 60 => Box(i).hyst_upper = {} /\ Box(i).hyst_lower = {})

(* C10 as stated: every zone with a present temperature has the solid centre
   line, whatever its history (the empty history included); the centre line is
   absent only when the temperature is absent. *)
C10_Original ==
    \A i \in ZoneIdx : Drawn(i) =>
        (Box(i).center # <<>> <=> Zone(i).temp.some)

(* C10 amended: the solid centre line is drawn exactly when the temperature is
   present and the stored history is not empty, on the middle row of the panel
   between the two interior edge columns; a zone with a present temperature
   and an empty history has no centre line. *)
C10_Amended ==
    \A i \in ZoneIdx : Drawn(i) =>
        /\ (Box(i).center # <<>> <=> Zone(i).temp.some /\ Len(Zone(i).history) > 0)
        /\ (Box(i).center # <<>> =>
              /\ Len(Box(i).center) = 1
              /\ Box(i).center[1].y = GRAPH_Y + 42
              /\ Box(i).center[1].x0 = LeftColumn(i * 40)
              /\ Box(i).center[1].x1 = RightColumn(i * 40))

C10_Witness ==
    \E i \in ZoneIdx :
        /\ Drawn(i)
        /\ Zone(i).temp.some /\ Zone(i).is_disabled
        /\ Len(Zone(i).history) > 0
        /\ Box(i).center # <<>>
        /\ Box(i).center[1].y = 120

====
